---- MODULE Spec2Model ----
(***************************************************************************)
(* A model of flax/optim/base.py: OptimizerDef, Optimizer,                 *)
(* ReplicatedOptimizer, MultiOptimizer and ModelParamTraversal.            *)
(*                                                                         *)
(* Values.  A pytree is a record: a leaf [val |-> n], a dict               *)
(* [items |-> f] (f a function from key names to pytrees) or a list        *)
(* [elems |-> s].  A key name is a Python str, modelled as the sequence of *)
(* its code points, so that str and tuple comparison are what Python       *)
(* computes.  Numbers are fixed point: parameters and learning rates count *)
(* tenths, gradients and per-parameter states count units, so that         *)
(* param - learning_rate * grad is exact.                                  *)
(***************************************************************************)
EXTENDS Integers, Sequences, FiniteSets, TLC

VARIABLES
  optimizer,   \* the Optimizer the caller holds: optimizer_def, state, target
  created,     \* that Optimizer as create() returned it
  calls,       \* how many calls were made on it
  applied,     \* how many of them returned a new Optimizer
  last,        \* what the last call on it was given and whether it raised
  inputs,      \* the nested dict handed to a ModelParamTraversal
  traversal,   \* that traversal: its filter_fn
  returned     \* what the last iterate / update call on it returned

vars == <<optimizer, created, calls, applied, last, inputs, traversal, returned>>

----------------------------------------------------------------------------
(* Bounds of the model. *)

\* Leaf values of the dicts handed to a traversal range over 1..MaxVal.
MaxVal == 2
\* Gradient leaves range over 1..MaxGrad.
MaxGrad == 2
\* Optimizer.apply_gradient is called at most MaxStep times in a run.
MaxStep == 2
\* An optimizer is replicated to NDev devices.
NDev == 2
\* A replicated optimizer goes through at most MaxOps operations in a run.
MaxOps == 3

----------------------------------------------------------------------------
(* Python str and tuple values. *)

\* '/'
Slash == 47

\* The key names used: 'a', 'a.', 'b', 'kernel', 'bias'.
key_a == <<97>>
key_a_dot == <<97, 46>>
key_b == <<98>>
key_kernel == <<107, 101, 114, 110, 101, 108>>
key_bias == <<98, 105, 97, 115>>

\* s < t on str: the first differing code point decides, a proper prefix is
\* smaller.
StrLess(s, t) ==
  \E i \in 1..Len(t) :
    /\ \A j \in 1..(i - 1) : j <= Len(s) /\ s[j] = t[j]
    /\ (i > Len(s) \/ s[i] < t[i])

\* k < l on tuples of str: the first differing component decides, by str
\* comparison; a proper prefix is smaller.
TupleLess(k, l) ==
  \E i \in 1..Len(l) :
    /\ \A j \in 1..(i - 1) : j <= Len(k) /\ k[j] = l[j]
    /\ (i > Len(k) \/ StrLess(k[i], l[i]))

\* pat in path
StrContains(pat, path) ==
  \E i \in 0..(Len(path) - Len(pat)) : SubSeq(path, i + 1, i + Len(pat)) = pat

\* '/' + '/'.join(key)
RECURSIVE JoinPath(_)
JoinPath(key) ==
  IF key = <<>> THEN <<Slash>>
  ELSE IF Len(key) = 1 THEN <<Slash>> \o key[1]
  ELSE JoinPath(SubSeq(key, 1, Len(key) - 1)) \o <<Slash>> \o key[Len(key)]

----------------------------------------------------------------------------
(* Pytrees. *)

Leaf(v) == [val |-> v]
Dict(f) == [items |-> f]
List(s) == [elems |-> s]

IsLeaf(t) == "val" \in DOMAIN t
IsDict(t) == "items" \in DOMAIN t
IsList(t) == "elems" \in DOMAIN t

\* traverse_util.empty_node: the stub flatten_dict leaves for an empty dict.
empty_node == [empty |-> TRUE]
IsEmptyNode(v) == "empty" \in DOMAIN v

EmptyFcn == [k \in {} |-> TRUE]

\* The sequence s and the function f as values computed once, not as the
\* expressions that compute their elements.
Evaluated(s) == s \o <<>>

EvaluatedFcn(f) == f @@ EmptyFcn

\* traverse_util.flatten_dict(xs, keep_empty_nodes): the dict from key tuples
\* to the values under them.
RECURSIVE flatten_prefix(_, _, _)
flatten_prefix(xs, prefix, keep_empty_nodes) ==
  IF ~IsDict(xs) THEN (prefix :> xs)
  ELSE IF DOMAIN xs.items = {}
    THEN IF keep_empty_nodes THEN (prefix :> empty_node) ELSE EmptyFcn
  ELSE LET sub == [key \in DOMAIN xs.items |->
                     flatten_prefix(xs.items[key], Append(prefix, key),
                                    keep_empty_nodes)]
           paths == UNION {DOMAIN sub[key] : key \in DOMAIN xs.items}
       IN  [p \in paths |-> sub[p[Len(prefix) + 1]][p]]

flatten_dict(xs, keep_empty_nodes) == flatten_prefix(xs, <<>>, keep_empty_nodes)

\* traverse_util.unflatten_dict(xs): the nested dict of a flat one; an
\* empty_node stub becomes an empty dict again.
RECURSIVE unflatten_dict(_)
unflatten_dict(xs) ==
  LET heads == {p[1] : p \in {q \in DOMAIN xs : Len(q) >= 1}}
      below(key) ==
        LET tails == {SubSeq(p, 2, Len(p)) :
                        p \in {q \in DOMAIN xs : Len(q) >= 2 /\ q[1] = key}}
        IN  [t \in tails |-> xs[<<key>> \o t]]
  IN  Dict([key \in heads |->
              IF <<key>> \in DOMAIN xs
                THEN IF IsEmptyNode(xs[<<key>>]) THEN Dict(EmptyFcn)
                     ELSE xs[<<key>>]
                ELSE unflatten_dict(below(key))])

----------------------------------------------------------------------------
(* ModelParamTraversal. *)

\* sorted(x.items(), key=lambda x: x[0]): the (key, value) pairs in ascending
\* order of the key tuples.
RECURSIVE sorted_keys(_)
sorted_keys(keys) ==
  IF keys = {} THEN <<>>
  ELSE LET least == CHOOSE k \in keys : \A l \in keys : k = l \/ TupleLess(k, l)
       IN  <<least>> \o sorted_keys(keys \ {least})

ItemsAt(x, ks) == [i \in 1..Len(ks) |-> <<ks[i], x[ks[i]]>>]

\* sorted_items with the keys ordered by their slash-joined paths (told
\* apart by C5).
sorted_items_by_path(x) ==
  [i \in 1..Cardinality(DOMAIN x) |->
     LET key == CHOOSE k \in DOMAIN x :
                  Cardinality({q \in DOMAIN x : StrLess(JoinPath(q), JoinPath(k))}) = i - 1
     IN  <<key, x[key]>>]

sorted_items(x) == ItemsAt(x, sorted_keys(DOMAIN x))

\* The filter functions given to ModelParamTraversal(filter_fn):
\*   lambda path, _: pat in path       [pat |-> pat]
\*   lambda path, value: value >= thr  [thr |-> thr]
PathFilter(pat) == [pat |-> pat]
ValueFilter(thr) == [thr |-> thr]
IsPathFilter(f) == "pat" \in DOMAIN f

filter_fn(f, path, value) ==
  IF IsPathFilter(f) THEN StrContains(f.pat, path) ELSE value.val >= f.thr

\* ModelParamTraversal.iterate(inputs): the values it yields, in order.
Values(items) == [i \in 1..Len(items) |-> items[i][2]]

iterate(f, params) ==
  LET flat_dict == flatten_dict(params, FALSE)
      pass(kv) == filter_fn(f, JoinPath(kv[1]), kv[2])
  IN  Values(SelectSeq(sorted_items(flat_dict), pass))

\* The functions handed to update(fn, inputs): lambda x: x, lambda x: x + 1,
\* and the closure update_fn of Traversal.set, which pops the next value of
\* the list it closes over and raises ValueError when the list is empty.
identity == [name |-> "identity"]
increment == [name |-> "increment"]
update_fn == [name |-> "update_fn"]

\* One call fn(value), with `values` the list update_fn closes over.
CallFn(fn, value, values) ==
  IF fn = identity THEN [raised |-> FALSE, result |-> value, values |-> values]
  ELSE IF fn = increment
    THEN [raised |-> FALSE, result |-> Leaf(value.val + 1), values |-> values]
  ELSE IF values = <<>>
    THEN [raised |-> TRUE, result |-> value, values |-> values]
  ELSE [raised |-> FALSE, result |-> Head(values), values |-> Tail(values)]

\* value = fn(value); new_dict[key] = value
Called(acc, key, value, call) ==
  [raised |-> call.raised,
   new_dict |-> (key :> call.result) @@ acc.new_dict,
   calls |-> Append(acc.calls, value),
   values |-> call.values]

\* The loop of ModelParamTraversal.update over the sorted items, from the
\* i-th on.  acc.new_dict is the flat dict built so far, acc.calls the values
\* fn was called on, acc.values what is left of update_fn's list.
RECURSIVE update_loop(_, _, _, _, _)
update_loop(f, fn, items, i, acc) ==
  IF i > Len(items) \/ acc.raised THEN acc
  ELSE LET key == items[i][1]
           value == items[i][2]
       IN  IF ~IsEmptyNode(value) /\ filter_fn(f, JoinPath(key), value)
             THEN update_loop(f, fn, items, i + 1,
                    Called(acc, key, value, CallFn(fn, value, acc.values)))
             ELSE update_loop(f, fn, items, i + 1,
                    [acc EXCEPT !.new_dict = (key :> value) @@ acc.new_dict])

\* The end of update: new_params = traverse_util.unflatten_dict(new_dict).
update_return(params, done) ==
  [raised |-> done.raised,
   new_params |-> IF done.raised THEN params ELSE unflatten_dict(done.new_dict),
   calls |-> done.calls,
   values |-> done.values]

\* update with flatten_dict(inputs) dropping the empty dicts (told apart by
\* C6).
update_dropping_empty(f, fn, params, values) ==
  LET flat_dict == flatten_dict(params, FALSE)
  IN  update_return(params,
        update_loop(f, fn, sorted_items(flat_dict), 1,
          [raised |-> FALSE, new_dict |-> EmptyFcn, calls |-> <<>>,
           values |-> values]))

\* ModelParamTraversal.update(fn, inputs): [raised, new_params, calls, values].
update(f, fn, params, values) ==
  LET flat_dict == flatten_dict(params, TRUE)
  IN  update_return(params,
        update_loop(f, fn, sorted_items(flat_dict), 1,
          [raised |-> FALSE, new_dict |-> EmptyFcn, calls |-> <<>>,
           values |-> values]))

\* traverse_util.Traversal.set(values, inputs): writes the values, in order,
\* over the selected leaves; ValueError when there are too few or too many.
set_return(params, y) ==
  IF y.raised \/ y.values # <<>>
    THEN [raised |-> TRUE, new_params |-> params]
    ELSE [raised |-> FALSE, new_params |-> y.new_params]

set(f, values, params) == set_return(params, update(f, update_fn, params, values))

----------------------------------------------------------------------------
(* The traversal on its own: every nested dict of the bounds, every filter. *)

\* The dicts over `keys` whose values are taken from `nodes`.
DictsOver(keys, nodes) ==
  {Dict(f) : f \in UNION {[ks -> nodes] : ks \in SUBSET keys}}

TraversalLeaves == {Leaf(v) : v \in 1..MaxVal}

TraversalInputs ==
  DictsOver({key_a, key_a_dot, key_b},
            TraversalLeaves \cup DictsOver({key_a, key_b}, TraversalLeaves))

TraversalFilters ==
  {PathFilter(key_b), PathFilter(<<Slash>>), ValueFilter(MaxVal)}

NoOptimizer == [op |-> "none"]

InitTraversal ==
  /\ inputs \in TraversalInputs
  /\ traversal \in TraversalFilters
  /\ returned = [op |-> "none"]
  /\ optimizer = NoOptimizer
  /\ created = NoOptimizer
  /\ calls = 0
  /\ applied = 0
  /\ last = [op |-> "none"]

Iterate ==
  /\ returned' = [op |-> "iterate", result |-> iterate(traversal, inputs)]
  /\ UNCHANGED <<optimizer, created, calls, applied, last, inputs, traversal>>

Update(fn) ==
  /\ LET y == update(traversal, fn, inputs, <<>>)
     IN  returned' = [op |-> "update", fn |-> fn, raised |-> y.raised,
                 result |-> y.new_params, calls |-> y.calls]
  /\ UNCHANGED <<optimizer, created, calls, applied, last, inputs, traversal>>

NextTraversal ==
  \/ Iterate
  \/ \E fn \in {identity, increment} : Update(fn)

SpecTraversal == InitTraversal /\ [][NextTraversal]_vars

----------------------------------------------------------------------------
(* Claims about ModelParamTraversal. *)

\* The leaves (not the empty-dict stubs) of params that satisfy the filter.
Selected(f, params) ==
  LET flat == flatten_dict(params, FALSE)
  IN  {p \in DOMAIN flat : filter_fn(f, JoinPath(p), flat[p])}

\* result lists the values stored in params at the key tuples `sel`, each
\* at the place its key has in the ascending order Less.
KeyTupleOrder == "key tuples"
JoinedPathOrder == "joined paths"

Less(order, k, l) ==
  IF order = KeyTupleOrder THEN TupleLess(k, l)
  ELSE StrLess(JoinPath(k), JoinPath(l))

ListsInOrder(result, params, sel, order) ==
  LET flat == flatten_dict(params, FALSE)
  IN  /\ Len(result) = Cardinality(sel)
      /\ \A p \in sel :
           result[1 + Cardinality({q \in sel : Less(order, q, p)})] = flat[p]


\* No key name of params holds a character that sorts before or is '/'.
KeysAboveSlash(params) ==
  \A p \in DOMAIN flatten_dict(params, TRUE) :
    \A i \in 1..Len(p) : \A j \in 1..Len(p[i]) : p[i][j] > Slash

\* C5 as stated: iterate yields exactly the values of the leaves that satisfy
\* the filter, in ascending order of their slash-joined path strings.
C5_JoinedPathOrder ==
  returned.op = "iterate" =>
    ListsInOrder(returned.result, inputs, Selected(traversal, inputs), JoinedPathOrder)

\* C5 amended: iterate yields exactly the values of the leaves that satisfy
\* the filter, in ascending order of their key tuples, compared component by
\* component as Python compares tuples of str; that is the order of the
\* slash-joined paths whenever no key name holds a character below '/'.
C5_KeyTupleOrder ==
  returned.op = "iterate" =>
    /\ ListsInOrder(returned.result, inputs, Selected(traversal, inputs), KeyTupleOrder)
    /\ KeysAboveSlash(inputs) =>
         ListsInOrder(returned.result, inputs, Selected(traversal, inputs),
                      JoinedPathOrder)

\* iterate has yielded two leaves with different values and left one out,
\* on a dict with the keys 'a' and 'a.', whose two orders differ.
C5_Witness ==
  /\ returned.op = "iterate"
  /\ Len(returned.result) >= 2
  /\ \E i, j \in 1..Len(returned.result) : returned.result[i] # returned.result[j]
  /\ Cardinality(DOMAIN flatten_dict(inputs, FALSE)) > Len(returned.result)
  /\ {key_a, key_a_dot} \subseteq DOMAIN inputs.items

\* C6: update(fn, inputs) returns a dict with the key tuples of inputs, the
\* empty-dict stubs included, in which a leaf that satisfies the filter holds
\* fn(leaf) and every other leaf and every stub is as it was; fn is called on
\* exactly the values iterate yields, never on a stub; update(identity,
\* inputs) is inputs.
C6_UpdateFrame ==
  returned.op = "update" =>
    LET old == flatten_dict(inputs, TRUE)
        new == flatten_dict(returned.result, TRUE)
    IN  /\ ~returned.raised
        /\ DOMAIN new = DOMAIN old
        /\ \A p \in DOMAIN old :
             IF IsEmptyNode(old[p]) THEN IsEmptyNode(new[p])
             ELSE IF p \in Selected(traversal, inputs)
               THEN new[p] = CallFn(returned.fn, old[p], <<>>).result
               ELSE new[p] = old[p]
        /\ returned.calls = iterate(traversal, inputs)
        /\ \A i \in 1..Len(returned.calls) : ~IsEmptyNode(returned.calls[i])
        /\ returned.fn = identity => returned.result = inputs

\* update(lambda x: x + 1) has replaced a leaf, kept another, and kept an
\* empty dict.
C6_Witness ==
  /\ returned.op = "update"
  /\ returned.fn = increment
  /\ \E p \in DOMAIN flatten_dict(inputs, TRUE) :
       IsEmptyNode(flatten_dict(inputs, TRUE)[p])
  /\ \E p \in DOMAIN flatten_dict(inputs, FALSE) :
       flatten_dict(returned.result, FALSE)[p] # flatten_dict(inputs, FALSE)[p]
  /\ \E p \in DOMAIN flatten_dict(inputs, FALSE) :
       flatten_dict(returned.result, FALSE)[p] = flatten_dict(inputs, FALSE)[p]

----------------------------------------------------------------------------
(* jax pytrees: tree_flatten, treedef.flatten_up_to, tree_unflatten,       *)
(* tree_map.  A dict is flattened in the sorted order of its keys.         *)

RECURSIVE Concat(_)
Concat(ss) == IF ss = <<>> THEN <<>> ELSE Head(ss) \o Concat(Tail(ss))

RECURSIVE sorted_strs(_)
sorted_strs(keys) ==
  IF keys = {} THEN <<>>
  ELSE LET least == CHOOSE k \in keys : \A l \in keys : k = l \/ StrLess(k, l)
       IN  <<least>> \o sorted_strs(keys \ {least})

\* The leaf place of a treedef.
star == [star |-> TRUE]
IsStar(t) == "star" \in DOMAIN t

\* The children of a dict or list node, in flatten order.
ValuesAt(items, ks) == [i \in 1..Len(ks) |-> items[ks[i]]]

Children(t) ==
  IF IsDict(t) THEN ValuesAt(t.items, sorted_strs(DOMAIN t.items)) ELSE t.elems

\* jax.tree_flatten(tree)[0]
RECURSIVE tree_leaves(_)
tree_leaves(t) ==
  IF IsLeaf(t) THEN <<t>>
  ELSE Concat([i \in 1..Len(Children(t)) |-> tree_leaves(Children(t)[i])])

\* jax.tree_flatten(tree)[1]
RECURSIVE tree_structure(_)
tree_structure(t) ==
  IF IsLeaf(t) THEN star
  ELSE IF IsDict(t)
    THEN Dict([k \in DOMAIN t.items |-> tree_structure(t.items[k])])
    ELSE List([i \in 1..Len(t.elems) |-> tree_structure(t.elems[i])])

RECURSIVE SumSeq(_)
SumSeq(ns) == IF ns = <<>> THEN 0 ELSE Head(ns) + SumSeq(Tail(ns))

\* treedef.num_leaves
RECURSIVE num_leaves(_)
num_leaves(treedef) ==
  IF IsStar(treedef) THEN 1
  ELSE SumSeq([i \in 1..Len(Children(treedef)) |-> num_leaves(Children(treedef)[i])])

\* jax.tree_unflatten(treedef, leaves)
Offsets(sizes) == [i \in 1..Len(sizes) |-> SumSeq(SubSeq(sizes, 1, i - 1))]

Sizes(cs) == [i \in 1..Len(cs) |-> num_leaves(cs[i])]

Position(ks, k) == CHOOSE i \in 1..Len(ks) : ks[i] = k

Node(treedef, ks, child) ==
  IF IsDict(treedef)
    THEN Dict(EvaluatedFcn([k \in DOMAIN treedef.items |-> child[Position(ks, k)]]))
    ELSE List(child)

RECURSIVE tree_unflatten(_, _)
RECURSIVE unflatten_children(_, _, _, _, _)
unflatten_children(treedef, leaves, cs, sizes, offsets) ==
  Node(treedef,
       IF IsDict(treedef) THEN sorted_strs(DOMAIN treedef.items) ELSE <<>>,
       Evaluated([i \in 1..Len(cs) |->
         tree_unflatten(cs[i], SubSeq(leaves, offsets[i] + 1, offsets[i] + sizes[i]))]))

tree_unflatten(treedef, leaves) ==
  IF IsStar(treedef) THEN leaves[1]
  ELSE unflatten_children(treedef, leaves, Children(treedef),
                          Sizes(Children(treedef)),
                          Offsets(Sizes(Children(treedef))))

\* treedef.flatten_up_to(tree): the subtrees of tree at treedef's leaf
\* places; ValueError unless tree has treedef's dicts (with the same keys)
\* and lists (of the same length) above them.
UpTo(subs) ==
  [raised |-> \E i \in 1..Len(subs) : subs[i].raised,
   leaves |-> Concat([i \in 1..Len(subs) |-> subs[i].leaves])]

RECURSIVE flatten_up_to(_, _)
flatten_up_to(treedef, tree) ==
  IF IsStar(treedef) THEN [raised |-> FALSE, leaves |-> <<tree>>]
  ELSE IF \/ IsDict(treedef) /\ ~IsDict(tree)
          \/ IsList(treedef) /\ ~IsList(tree)
    THEN [raised |-> TRUE, leaves |-> <<>>]
  ELSE IF \/ IsDict(treedef) /\ DOMAIN treedef.items # DOMAIN tree.items
          \/ IsList(treedef) /\ Len(treedef.elems) # Len(tree.elems)
    THEN [raised |-> TRUE, leaves |-> <<>>]
  ELSE UpTo([i \in 1..Len(Children(treedef)) |->
                flatten_up_to(Children(treedef)[i], Children(tree)[i])])

\* jax.tree_map(f, tree), f a function of the leaves of tree.
Leaves(tree) == {tree_leaves(tree)[i] : i \in 1..Len(tree_leaves(tree))}

MapSeq(f, leaves) == Evaluated([i \in 1..Len(leaves) |-> f[leaves[i]]])

tree_map(f, tree) ==
  tree_unflatten(tree_structure(tree), MapSeq(f, tree_leaves(tree)))

----------------------------------------------------------------------------
(* OptimizerDef. *)

OptimizerState(step, param_states) ==
  [step |-> step, param_states |-> param_states]

\* The exception a call ends with.
Raise == [raised |-> TRUE]

\* The subclass hooks.  The rule modelled is gradient descent with a
\* step-weighted gradient accumulator as the per-parameter state:
\*   new_state = state + (step + 1) * grad
\*   new_param = param - learning_rate * new_state
\* so that a new parameter tells which step, hyper parameters, parameter,
\* state and gradient the rule was called with.
\* Its arithmetic raises TypeError on an operand that is not an array.
init_param_state(param) == Leaf(0)

apply_param_gradient(step, hyper_params, param, state, grad) ==
  IF ~IsLeaf(param) \/ ~IsLeaf(state) \/ ~IsLeaf(grad) THEN Raise
  ELSE [raised |-> FALSE,
        new_param |-> Leaf(param.val - hyper_params.learning_rate
                                         * (state.val + (step + 1) * grad.val)),
        new_state |-> Leaf(state.val + (step + 1) * grad.val)]

\* apply_gradient_return without the step advanced (told apart by C2).
apply_gradient_return_same_step(step, treedef, out) ==
  IF \E i \in 1..Len(out) : out[i].raised THEN Raise
  ELSE [raised |-> FALSE,
        new_params |-> tree_unflatten(treedef, [i \in 1..Len(out) |-> out[i].new_param]),
        new_state |->
          OptimizerState(step,
            tree_unflatten(treedef, [i \in 1..Len(out) |-> out[i].new_state]))]

\* The end of OptimizerDef.apply_gradient: out is unzipped, both lists are
\* unflattened, the step is advanced.
apply_gradient_return(step, treedef, out) ==
  IF \E i \in 1..Len(out) : out[i].raised THEN Raise
  ELSE [raised |-> FALSE,
        new_params |-> tree_unflatten(treedef, [i \in 1..Len(out) |-> out[i].new_param]),
        new_state |->
          OptimizerState(step + 1,
            tree_unflatten(treedef, [i \in 1..Len(out) |-> out[i].new_state]))]

\* apply_gradient_out with the gradients zipped from the last one (told
\* apart by C1).
apply_gradient_out_misaligned(step, hyper_params, params_flat, treedef, states_flat, grads_flat) ==
  IF states_flat.raised \/ grads_flat.raised THEN Raise
  ELSE apply_gradient_return(step, treedef,
         [i \in 1..Len(params_flat) |->
            apply_param_gradient(step, hyper_params, params_flat[i],
                                 states_flat.leaves[i],
                                 grads_flat.leaves[Len(params_flat) + 1 - i])])

\* The per-leaf calls of OptimizerDef.apply_gradient over the zipped lists.
apply_gradient_out(step, hyper_params, params_flat, treedef, states_flat, grads_flat) ==
  IF states_flat.raised \/ grads_flat.raised THEN Raise
  ELSE apply_gradient_return(step, treedef,
         [i \in 1..Len(params_flat) |->
            apply_param_gradient(step, hyper_params, params_flat[i],
                                 states_flat.leaves[i], grads_flat.leaves[i])])

\* OptimizerDef.apply_gradient(hyper_params, params, state, grads)
OptimizerDef_apply_gradient(hyper_params, params, state, grads) ==
  apply_gradient_out(state.step, hyper_params, tree_leaves(params),
                     tree_structure(params),
                     flatten_up_to(tree_structure(params), state.param_states),
                     flatten_up_to(tree_structure(params), grads))

\* OptimizerDef.init_state(params)
OptimizerDef_init_state(params) ==
  OptimizerState(0,
    tree_map([param \in Leaves(params) |-> init_param_state(param)], params))

\* hp.replace(**hyper_param_overrides): the overrides name learning_rate.
replace(hp, hyper_param_overrides) ==
  [hp EXCEPT !.learning_rate = hyper_param_overrides.learning_rate]

NoOverrides == EmptyFcn

\* update_hyper_params storing what it resolved in the definition (told
\* apart by C7).
OptimizerDef_update_hyper_params_stored(self, hyper_param_overrides) ==
  LET hp == IF "hyper_params" \in DOMAIN hyper_param_overrides
              THEN hyper_param_overrides.hyper_params
              ELSE self.hyper_params
      rest == DOMAIN hyper_param_overrides \ {"hyper_params"}
      resolved == IF rest # {} THEN replace(hp, hyper_param_overrides) ELSE hp
  IN  [hyper_params |-> resolved, self |-> [self EXCEPT !.hyper_params = resolved]]

\* OptimizerDef.update_hyper_params(**hyper_param_overrides): what it returns
\* and the definition (self) as the call leaves it.
OptimizerDef_update_hyper_params(self, hyper_param_overrides) ==
  LET hp == IF "hyper_params" \in DOMAIN hyper_param_overrides
              THEN hyper_param_overrides.hyper_params
              ELSE self.hyper_params
      rest == DOMAIN hyper_param_overrides \ {"hyper_params"}
  IN  [hyper_params |-> IF rest # {} THEN replace(hp, hyper_param_overrides) ELSE hp,
       self |-> self]

\* An OptimizerDef subclass instance with the hooks above.
OptimizerDef(hyper_params) ==
  [kind |-> "OptimizerDef", hyper_params |-> hyper_params]

----------------------------------------------------------------------------
(* MultiOptimizer. *)

\* MultiOptimizer(*traversals_and_optimizers)
MultiOptimizer(traversals_and_optimizers) ==
  LET n == Len(traversals_and_optimizers)
      traversals == [i \in 1..n |-> traversals_and_optimizers[i][1]]
      sub_optimizers == [i \in 1..n |-> traversals_and_optimizers[i][2]]
  IN  [kind |-> "MultiOptimizer",
       hyper_params |-> [i \in 1..n |-> sub_optimizers[i].hyper_params],
       traversals |-> traversals,
       sub_optimizers |-> sub_optimizers]

Min(m, n) == IF m <= n THEN m ELSE n

\* MultiOptimizer.init_state(params)
MultiOptimizer_init_state(self, params) ==
  [i \in 1..Min(Len(self.traversals), Len(self.sub_optimizers)) |->
     LET params_t == List(iterate(self.traversals[i], params))
     IN  OptimizerDef_init_state(params_t)]

\* The loop of MultiOptimizer.apply_gradient from the i-th pair on; `count`
\* is where zip stops.  multi_pair is the loop body after the sub-optimizer
\* returned r, multi_set after focus.set returned w.
RECURSIVE multi_loop(_, _, _, _, _, _, _, _)
RECURSIVE multi_pair(_, _, _, _, _, _, _, _, _)
RECURSIVE multi_set(_, _, _, _, _, _, _, _, _, _)
multi_set(self, hyper_params, params, states, grads, i, count, acc, r, w) ==
  multi_loop(self, hyper_params, params, states, grads, i + 1, count,
    [raised |-> w.raised,
     new_params |-> w.new_params,
     new_state |-> Append(acc.new_state, r.new_state)])

\* multi_pair with focus.set writing into params instead of new_params
\* (told apart by C3).
multi_pair_into_params(self, hyper_params, params, states, grads, i, count, acc, r) ==
  IF r.raised THEN Raise
  ELSE multi_set(self, hyper_params, params, states, grads, i, count, acc, r,
         set(self.traversals[i], r.new_params.elems, params))

multi_pair(self, hyper_params, params, states, grads, i, count, acc, r) ==
  IF r.raised THEN Raise
  ELSE multi_set(self, hyper_params, params, states, grads, i, count, acc, r,
         set(self.traversals[i], r.new_params.elems, acc.new_params))

\* multi_loop with focus.iterate reading new_params instead of params (told
\* apart by C4).
multi_loop_accumulated(self, hyper_params, params, states, grads, i, count, acc) ==
  IF acc.raised THEN Raise
  ELSE IF i > count THEN acc
  ELSE multi_pair(self, hyper_params, params, states, grads, i, count, acc,
         OptimizerDef_apply_gradient(hyper_params[i],
           List(iterate(self.traversals[i], acc.new_params)),
           states[i],
           List(iterate(self.traversals[i], grads))))

multi_loop(self, hyper_params, params, states, grads, i, count, acc) ==
  IF acc.raised THEN Raise
  ELSE IF i > count THEN acc
  ELSE multi_pair(self, hyper_params, params, states, grads, i, count, acc,
         OptimizerDef_apply_gradient(hyper_params[i],
           List(iterate(self.traversals[i], params)),
           states[i],
           List(iterate(self.traversals[i], grads))))

\* MultiOptimizer.apply_gradient(hyper_params, params, states, grads)
MultiOptimizer_apply_gradient(self, hyper_params, params, states, grads) ==
  multi_loop(self, hyper_params, params, states, grads, 1,
    Min(Min(Len(self.traversals), Len(self.sub_optimizers)),
        Min(Len(hyper_params), Len(states))),
    [raised |-> FALSE, new_params |-> params, new_state |-> <<>>])

\* MultiOptimizer.update_hyper_params(**hyper_param_overrides)
MultiOptimizer_update_hyper_params(self, hyper_param_overrides) ==
  LET hps == IF "hyper_params" \in DOMAIN hyper_param_overrides
               THEN hyper_param_overrides.hyper_params
               ELSE self.hyper_params
      rest == DOMAIN hyper_param_overrides \ {"hyper_params"}
  IN  [hyper_params |->
         IF rest # {}
           THEN [i \in 1..Len(hps) |-> replace(hps[i], hyper_param_overrides)]
           ELSE hps,
       self |-> self]

----------------------------------------------------------------------------
(* ReplicatedOptimizer. *)

IsMulti(optimizer_def) == optimizer_def.kind = "MultiOptimizer"
IsReplicated(optimizer_def) == optimizer_def.kind = "ReplicatedOptimizer"

\* The methods of a definition, dispatched on its class further down.
RECURSIVE init_state(_, _)
RECURSIVE update_hyper_params(_, _)
RECURSIVE apply_gradient(_, _, _, _, _)

\* jax.local_devices()
local_devices == [d \in 1..NDev |-> d]

\* ReplicatedOptimizer(optimizer_def, devices, axis_name)
ReplicatedOptimizer(optimizer_def, devices, axis_name) ==
  [kind |-> "ReplicatedOptimizer",
   hyper_params |-> optimizer_def.hyper_params,
   optimizer_def |-> optimizer_def,
   devices |-> devices,
   axis_name |-> axis_name]

\* ReplicatedOptimizer.init_state(params)
ReplicatedOptimizer_init_state(self, params) == init_state(self.optimizer_def, params)

\* A value inside jax.pmap is the leaf [val |-> what this device holds,
\* axis |-> what every device of the axis holds].  jax.lax.psum(x, axis_name)
\* is the sum of x over the devices of the axis; psum(1, axis_name) adds a
\* 1 for every device.
psum(x) == SumSeq(x.axis)

psum_1(self) == SumSeq([d \in 1..Len(self.devices) |-> 1])

\* _cross_replica_mean without the division by axis_size (told apart by C8).
cross_replica_sum(self, grad) == Leaf(psum(grad))

\* ReplicatedOptimizer._cross_replica_mean(grad); the division is exact on
\* the gradients the model feeds it.
cross_replica_mean(self, grad) == Leaf(psum(grad) \div psum_1(self))

\* ReplicatedOptimizer.apply_gradient(hyper_params, params, state, grads)
ReplicatedOptimizer_apply_gradient(self, hyper_params, params, state, grads) ==
  apply_gradient(self.optimizer_def, hyper_params, params, state,
    tree_map([grad \in Leaves(grads) |-> cross_replica_mean(self, grad)], grads))

\* ReplicatedOptimizer.update_hyper_params(**hyper_param_overrides): what
\* the wrapped definition returns.
with_optimizer_def(self, u) ==
  [hyper_params |-> u.hyper_params, self |-> [self EXCEPT !.optimizer_def = u.self]]

ReplicatedOptimizer_update_hyper_params(self, hyper_param_overrides) ==
  with_optimizer_def(self, update_hyper_params(self.optimizer_def, hyper_param_overrides))

----------------------------------------------------------------------------
(* Optimizer. *)

Optimizer(optimizer_def, state, target) ==
  [optimizer_def |-> optimizer_def, state |-> state, target |-> target]

\* opt_def.init_state(params), by the class of opt_def.
init_state(self, params) ==
  IF IsReplicated(self) THEN ReplicatedOptimizer_init_state(self, params)
  ELSE IF IsMulti(self) THEN MultiOptimizer_init_state(self, params)
  ELSE OptimizerDef_init_state(params)

\* OptimizerDef.create(target, focus): focus is None or a traversal.
None == [none |-> TRUE]

create(self, target, focus) ==
  LET opt_def == IF focus # None THEN MultiOptimizer(<<<<focus, self>>>>) ELSE self
      state == init_state(opt_def, target)
  IN  Optimizer(opt_def, state, target)

\* optimizer_def.update_hyper_params(**overrides), by the class of the
\* definition.
update_hyper_params(self, hyper_param_overrides) ==
  IF IsReplicated(self)
    THEN ReplicatedOptimizer_update_hyper_params(self, hyper_param_overrides)
  ELSE IF IsMulti(self) THEN MultiOptimizer_update_hyper_params(self, hyper_param_overrides)
  ELSE OptimizerDef_update_hyper_params(self, hyper_param_overrides)

\* optimizer_def.apply_gradient(hyper_params, params, state, grads), by the
\* class of the definition.
apply_gradient(self, hyper_params, params, state, grads) ==
  IF IsReplicated(self)
    THEN ReplicatedOptimizer_apply_gradient(self, hyper_params, params, state, grads)
  ELSE IF IsMulti(self)
    THEN MultiOptimizer_apply_gradient(self, hyper_params, params, state, grads)
    ELSE OptimizerDef_apply_gradient(hyper_params, params, state, grads)

\* Optimizer.apply_gradient(grads, **hyper_param_overrides): whether it
\* raised, the hyper parameters it resolved, and the Optimizer the caller
\* holds afterwards (the new one, or self when it raised).
apply_gradient_result(self, u, r) ==
  [raised |-> r.raised,
   hyper_params |-> u.hyper_params,
   optimizer |->
     IF r.raised THEN [self EXCEPT !.optimizer_def = u.self]
     ELSE Optimizer(u.self, r.new_state, r.new_params)]

apply_gradient_resolved(self, grads, u) ==
  apply_gradient_result(self, u,
    apply_gradient(u.self, u.hyper_params, self.target, self.state, grads))

Optimizer_apply_gradient(self, grads, hyper_param_overrides) ==
  apply_gradient_resolved(self, grads,
    update_hyper_params(self.optimizer_def, hyper_param_overrides))

\* jax_utils.replicate(tree, devices): every array gets a leading axis with
\* one copy per device.  The arrays of an Optimizer are the leaves of its
\* target and, in every OptimizerState of its state, the step and the leaves
\* of param_states.
copies(x, devices) == Evaluated([d \in 1..Len(devices) |-> x])

replicate_tree(tree, devices) ==
  tree_map([x \in Leaves(tree) |-> Leaf(copies(x.val, devices))], tree)

replicate_optimizer_state(state, devices) ==
  OptimizerState(copies(state.step, devices),
                 replicate_tree(state.param_states, devices))

RECURSIVE replicate_state(_, _, _)
replicate_state(optimizer_def, state, devices) ==
  IF IsReplicated(optimizer_def)
    THEN replicate_state(optimizer_def.optimizer_def, state, devices)
  ELSE IF IsMulti(optimizer_def)
    THEN Evaluated([i \in 1..Len(state) |-> replicate_optimizer_state(state[i], devices)])
  ELSE replicate_optimizer_state(state, devices)

jax_utils_replicate(self, devices) ==
  Optimizer(self.optimizer_def,
            replicate_state(self.optimizer_def, self.state, devices),
            replicate_tree(self.target, devices))

\* x[d] of every array of an Optimizer (d counts from 1).
index_tree(tree, d) == tree_map([x \in Leaves(tree) |-> Leaf(x.val[d])], tree)

index_optimizer_state(state, d) ==
  OptimizerState(state.step[d], index_tree(state.param_states, d))

RECURSIVE index_state(_, _, _)
index_state(optimizer_def, state, d) ==
  IF IsReplicated(optimizer_def) THEN index_state(optimizer_def.optimizer_def, state, d)
  ELSE IF IsMulti(optimizer_def)
    THEN Evaluated([i \in 1..Len(state) |-> index_optimizer_state(state[i], d)])
  ELSE index_optimizer_state(state, d)

index_optimizer(self, d) ==
  Optimizer(self.optimizer_def,
            index_state(self.optimizer_def, self.state, d),
            index_tree(self.target, d))

\* jax_utils.unreplicate(tree): x[0] of every array.
jax_utils_unreplicate(self) == index_optimizer(self, 1)

\* optimizer.replace(optimizer_def=optimizer_def)
replace_optimizer_def(self, optimizer_def) ==
  [self EXCEPT !.optimizer_def = optimizer_def]

\* Optimizer.replicate(devices=None, axis_name='batch')
replicate(self) ==
  replace_optimizer_def(jax_utils_replicate(self, local_devices),
                        ReplicatedOptimizer(self.optimizer_def, local_devices, "batch"))

\* unreplicate returning the wrapper as the definition (told apart by C9).
unreplicate_keeping_def(self) ==
  IF ~IsReplicated(self.optimizer_def) THEN [raised |-> TRUE, optimizer |-> self]
  ELSE [raised |-> FALSE, optimizer |-> jax_utils_unreplicate(self)]

\* Optimizer.unreplicate(): ValueError, or the Optimizer it returns.
unreplicate(self) ==
  IF ~IsReplicated(self.optimizer_def) THEN [raised |-> TRUE, optimizer |-> self]
  ELSE [raised |-> FALSE,
        optimizer |-> replace_optimizer_def(jax_utils_unreplicate(self),
                                            self.optimizer_def.optimizer_def)]

----------------------------------------------------------------------------
(* An Optimizer under apply_gradient calls. *)

\* Learning rates, in tenths.
sgd(learning_rate) == OptimizerDef([learning_rate |-> learning_rate])

kernels == PathFilter(key_kernel)
biases == PathFilter(key_bias)
everything == PathFilter(<<Slash>>)

\* The parameter trees optimized, leaves in tenths:
\*   {a: {kernel: 1.0, bias: 2.0}, b: {kernel: 3.0, bias: 4.0}}
\*   {a: {kernel: 1.0, bias: 2.0}, b: {}}
\*   {a: {}}
\*   {kernel: 0.1, bias: 0.3}
ExampleTarget ==
  Dict(key_a :> Dict(key_kernel :> Leaf(10) @@ key_bias :> Leaf(20)) @@
       key_b :> Dict(key_kernel :> Leaf(30) @@ key_bias :> Leaf(40)))

Targets ==
  {ExampleTarget,
   Dict(key_a :> Dict(key_kernel :> Leaf(10) @@ key_bias :> Leaf(20)) @@
        key_b :> Dict(EmptyFcn)),
   Dict(key_a :> Dict(EmptyFcn)),
   Dict(key_kernel :> Leaf(1) @@ key_bias :> Leaf(3))}

\* A traversal that selects by value, lambda path, value: value >= MaxGrad.
\* The threshold is compared with the numbers in the trees as they stand, so
\* a call through this traversal is read with parameters, learning rates and
\* gradients all in units: {kernel: 1.0, bias: 3.0}, learning rate 1.0,
\* gradients 1.0 and 2.0.
large == ValueFilter(MaxGrad)

\* The MultiOptimizers built by hand: kernels and biases apart (the pair of
\* the class docstring), two traversals that overlap, and a traversal that
\* selects by value.
KernelBiasDef == MultiOptimizer(<< <<kernels, sgd(1)>>, <<biases, sgd(5)>> >>)

MultiDefs ==
  {KernelBiasDef,
   MultiOptimizer(<< <<everything, sgd(1)>>, <<kernels, sgd(5)>> >>),
   MultiOptimizer(<< <<large, sgd(1)>>, <<biases, sgd(5)>> >>)}

\* The gradient trees with the structure of target: every leaf g, or the
\* i-th leaf (in flatten order) g + i - 1 so that no two leaves hold the same
\* gradient, for g in 1..MaxGrad.
UniformGrads(target, g) ==
  LET treedef == tree_structure(target)
  IN  tree_unflatten(treedef, [i \in 1..num_leaves(treedef) |-> Leaf(g)])

RampGrads(target, g) ==
  LET treedef == tree_structure(target)
  IN  tree_unflatten(treedef, [i \in 1..num_leaves(treedef) |-> Leaf(g + i - 1)])

SameStructureGrads(target) ==
  {UniformGrads(target, g) : g \in 1..MaxGrad}
    \cup {RampGrads(target, g) : g \in 1..MaxGrad}

\* Gradient trees whose structure is not target's: a top-level key dropped,
\* the bias dropped from a top-level entry, a top-level entry nested one dict
\* deeper, a top-level key renamed.
DropBias(tree) ==
  IF IsDict(tree)
    THEN Dict([k \in DOMAIN tree.items \ {key_bias} |-> tree.items[k]])
    ELSE tree

MismatchedGrads(target) ==
  LET g == RampGrads(target, 1).items
      ks == DOMAIN g
  IN  {Dict([k \in ks \ {d} |-> g[k]]) : d \in ks}
        \cup {Dict([k \in ks |-> IF k = d THEN DropBias(g[k]) ELSE g[k]]) :
                d \in {k \in ks : IsDict(g[k]) /\ key_bias \in DOMAIN g[k].items}}
        \cup {Dict([k \in ks |-> IF k = d THEN Dict(key_a :> g[k]) ELSE g[k]]) :
                d \in ks}
        \cup {Dict([k \in (ks \ {d}) \cup {key_a_dot} |->
                      IF k = key_a_dot THEN g[d] ELSE g[k]]) : d \in ks}

\* The keyword arguments of apply_gradient besides none: learning_rate=0.2,
\* hyper_params=... (for a MultiOptimizer of n pairs a list of n - 1, n or
\* n + 1 entries).
FullHyperParams(optimizer_def) ==
  IF IsMulti(optimizer_def)
    THEN LET n == Len(optimizer_def.hyper_params)
         IN  {[i \in 1..m |-> [learning_rate |-> 3]] : m \in (n - 1)..(n + 1)}
    ELSE {[learning_rate |-> 3]}

Overrides(optimizer_def) ==
  {[learning_rate |-> 2]}
    \cup {[hyper_params |-> hp] : hp \in FullHyperParams(optimizer_def)}

NoTraversal == [op |-> "none"]

Init ==
  /\ \E target \in Targets :
       \/ \E focus \in {None, kernels, large} :
            optimizer = create(sgd(1), target, focus)
       \/ \E multi \in MultiDefs : optimizer = create(multi, target, None)
  /\ created = optimizer
  /\ calls = 0
  /\ applied = 0
  /\ last = [op |-> "create"]
  /\ inputs = NoTraversal
  /\ traversal = NoTraversal
  /\ returned = NoTraversal

\* new_optimizer = optimizer.apply_gradient(grads, **overrides); the caller
\* keeps the Optimizer it had when the call raises.
Returns(grads, hyper_param_overrides, r) ==
  /\ optimizer' = r.optimizer
  /\ applied' = IF r.raised THEN applied ELSE applied + 1
  /\ last' = [op |-> "apply_gradient", before |-> optimizer,
              grads |-> grads, overrides |-> hyper_param_overrides,
              hyper_params |-> r.hyper_params, raised |-> r.raised,
              after_override |-> /\ last.op = "apply_gradient"
                                 /\ DOMAIN last.overrides # {}]

ApplyGradient(grads, hyper_param_overrides) ==
  /\ calls < MaxStep
  /\ calls' = calls + 1
  /\ Returns(grads, hyper_param_overrides,
             Optimizer_apply_gradient(optimizer, grads, hyper_param_overrides))
  /\ UNCHANGED <<created, inputs, traversal, returned>>

Next ==
  \/ \E grads \in SameStructureGrads(optimizer.target) :
       ApplyGradient(grads, NoOverrides)
  \/ \E grads \in MismatchedGrads(optimizer.target) :
       ApplyGradient(grads, NoOverrides)
  \/ \E hyper_param_overrides \in Overrides(optimizer.optimizer_def) :
       ApplyGradient(RampGrads(optimizer.target, 1), hyper_param_overrides)

Spec == Init /\ [][Next]_vars

----------------------------------------------------------------------------
(* An Optimizer replicated, applied under jax.pmap, and unreplicated. *)

\* What jax.pmap does around the function it maps: device d gets the d-th
\* slice of every array, values of the mapped axis know the axis, and the
\* per-device results are stacked along a new leading axis.
device_slice(self, d) == index_optimizer(self, d)

in_axis(grads, d) ==
  tree_map([x \in Leaves(grads) |-> [val |-> x.val[d], axis |-> x.val]], grads)

stack_leaves(treedef, leaves) ==
  tree_unflatten(treedef,
    Evaluated([i \in 1..num_leaves(treedef) |->
      Leaf(Evaluated([d \in 1..Len(leaves) |-> leaves[d][i].val]))]))

stack_tree(trees) ==
  stack_leaves(tree_structure(trees[1]),
               Evaluated([d \in 1..Len(trees) |-> tree_leaves(trees[d])]))

stack_optimizer_state(states) ==
  OptimizerState(Evaluated([d \in 1..Len(states) |-> states[d].step]),
                 stack_tree(Evaluated([d \in 1..Len(states) |-> states[d].param_states])))

RECURSIVE stack_state(_, _)
stack_state(optimizer_def, states) ==
  IF IsReplicated(optimizer_def) THEN stack_state(optimizer_def.optimizer_def, states)
  ELSE IF IsMulti(optimizer_def)
    THEN Evaluated([i \in 1..Len(states[1]) |->
           stack_optimizer_state(Evaluated([d \in 1..Len(states) |-> states[d][i]]))])
  ELSE stack_optimizer_state(states)

\* The Optimizer the caller of the pmapped apply_gradient holds afterwards.
stack_results(self, results) ==
  IF \E d \in 1..Len(results) : results[d].raised
    THEN [raised |-> TRUE, hyper_params |-> results[1].hyper_params, optimizer |-> self]
    ELSE [raised |-> FALSE,
          hyper_params |-> results[1].hyper_params,
          optimizer |->
            Optimizer(results[1].optimizer.optimizer_def,
                      stack_state(self.optimizer_def,
                        Evaluated([d \in 1..Len(results) |-> results[d].optimizer.state])),
                      stack_tree(
                        Evaluated([d \in 1..Len(results) |-> results[d].optimizer.target])))]

\* jax.pmap(lambda opt, g: opt.apply_gradient(g, **overrides))(self, grads)
pmap_apply_gradient(self, grads, hyper_param_overrides) ==
  stack_results(self,
    Evaluated([d \in 1..Len(self.optimizer_def.devices) |->
      Optimizer_apply_gradient(device_slice(self, d), in_axis(grads, d),
                               hyper_param_overrides)]))

\* The parameter trees replicated:
\*   {a: {kernel: 1.0, bias: 2.0}, b: {kernel: 3.0, bias: 4.0}}
\*   {kernel: 1.0}
\*   {a: {}}
ScalarTarget == Dict(key_kernel :> Leaf(10))

ReplicatedTargets == {ExampleTarget, ScalarTarget, Dict(key_a :> Dict(EmptyFcn))}

\* The per-device gradients of a call: the i-th leaf is mean + i - 1 on
\* every device, or one less on the first device and one more on the last.
SpreadGrads(target, mean, spread) ==
  stack_tree(Evaluated([d \in 1..NDev |->
    RampGrads(target, IF d = 1 THEN mean - spread
                      ELSE IF d = NDev THEN mean + spread
                      ELSE mean)]))

PerDeviceGrads(target) ==
  {SpreadGrads(target, mean, spread) : mean \in 2..(MaxGrad + 1), spread \in {0, 1}}

InitReplicated ==
  /\ \E target \in ReplicatedTargets :
       \E focus \in {None, kernels} : optimizer = create(sgd(1), target, focus)
  /\ created = optimizer
  /\ calls = 0
  /\ applied = 0
  /\ last = [op |-> "create"]
  /\ inputs = NoTraversal
  /\ traversal = NoTraversal
  /\ returned = NoTraversal

\* optimizer = optimizer.replicate()
Replicate ==
  /\ calls < MaxOps
  /\ calls' = calls + 1
  /\ optimizer' = replicate(optimizer)
  /\ last' = [op |-> "replicate", before |-> optimizer, raised |-> FALSE]
  /\ UNCHANGED <<created, applied, inputs, traversal, returned>>

\* optimizer = optimizer.unreplicate(); the caller keeps the Optimizer it
\* had when the call raises.
Unreplicated(r) ==
  /\ optimizer' = r.optimizer
  /\ last' = [op |-> "unreplicate", before |-> optimizer, raised |-> r.raised,
              replicated_from |-> IF last.op = "replicate" THEN last.before ELSE None]

Unreplicate ==
  /\ calls < MaxOps
  /\ calls' = calls + 1
  /\ Unreplicated(unreplicate(optimizer))
  /\ UNCHANGED <<created, applied, inputs, traversal, returned>>

\* optimizer = jax.pmap(...)(optimizer, grads) on an optimizer replicated
\* once.
PmapReturns(grads, hyper_param_overrides, r) ==
  /\ optimizer' = r.optimizer
  /\ applied' = IF r.raised THEN applied ELSE applied + 1
  /\ last' = [op |-> "pmap_apply_gradient", before |-> optimizer,
              grads |-> grads, overrides |-> hyper_param_overrides,
              hyper_params |-> r.hyper_params, raised |-> r.raised]

PmapApplyGradient(grads, hyper_param_overrides) ==
  /\ calls < MaxOps
  /\ calls' = calls + 1
  /\ PmapReturns(grads, hyper_param_overrides,
                 pmap_apply_gradient(optimizer, grads, hyper_param_overrides))
  /\ UNCHANGED <<created, inputs, traversal, returned>>

Pmappable(self) ==
  /\ IsReplicated(self.optimizer_def)
  /\ ~IsReplicated(self.optimizer_def.optimizer_def)

NextReplicated ==
  \/ Replicate
  \/ Unreplicate
  \/ /\ Pmappable(optimizer)
     /\ \E grads \in PerDeviceGrads(device_slice(optimizer, 1).target) :
          PmapApplyGradient(grads, NoOverrides)
  \/ /\ Pmappable(optimizer)
     /\ PmapApplyGradient(SpreadGrads(device_slice(optimizer, 1).target, 2, 1),
                          [learning_rate |-> 2])

SpecReplicated == InitReplicated /\ [][NextReplicated]_vars

----------------------------------------------------------------------------
(* Properties of an Optimizer under apply_gradient calls. *)

Applied == last.op = "apply_gradient"

IsBase(opt) == opt.optimizer_def.kind = "OptimizerDef"

SameStructure(x, y) == tree_structure(x) = tree_structure(y)

Flat(tree) == flatten_dict(tree, FALSE)

\* C1: OptimizerDef.apply_gradient on a state and a gradient tree with the
\* structure of the parameters returns new parameters and new param_states
\* with that structure whose i-th leaves are the two components of
\* apply_param_gradient(state.step, hyper_params, P_i, S_i, G_i); the
\* param_states of an Optimizer with such a definition have the structure of
\* its target after init_state and after every apply_gradient.
C1_LeafWise ==
  /\ IsBase(optimizer) => SameStructure(optimizer.state.param_states, optimizer.target)
  /\ (Applied /\ IsBase(last.before)
        /\ SameStructure(last.grads, last.before.target)) =>
       LET P == tree_leaves(last.before.target)
           S == tree_leaves(last.before.state.param_states)
           G == tree_leaves(last.grads)
       IN  /\ ~last.raised
           /\ SameStructure(optimizer.target, last.before.target)
           /\ SameStructure(optimizer.state.param_states, last.before.target)
           /\ \A i \in 1..Len(P) :
                /\ tree_leaves(optimizer.target)[i] =
                     apply_param_gradient(last.before.state.step, last.hyper_params,
                                          P[i], S[i], G[i]).new_param
                /\ tree_leaves(optimizer.state.param_states)[i] =
                     apply_param_gradient(last.before.state.step, last.hyper_params,
                                          P[i], S[i], G[i]).new_state

\* A second apply_gradient of a plain definition succeeded on four leaves
\* with four different gradients.
C1_Witness ==
  /\ Applied
  /\ IsBase(last.before)
  /\ ~last.raised
  /\ applied = 2
  /\ Len(tree_leaves(last.grads)) = 4
  /\ \A i, j \in 1..4 :
       i # j => tree_leaves(last.grads)[i] # tree_leaves(last.grads)[j]

\* C2: for an Optimizer made by create(target) without focus the step is 0
\* after init_state and every successful apply_gradient adds exactly 1, so
\* the step is the number of successful calls; on a target without leaves
\* the call returns the empty trees it was given.
C2_StepCounts ==
  IsBase(created) =>
    /\ created.state.step = 0
    /\ optimizer.state.step = applied
    /\ (Applied /\ ~last.raised) => optimizer.state.step = last.before.state.step + 1
    /\ (Applied /\ last.raised) => optimizer.state.step = last.before.state.step
    /\ tree_leaves(created.target) = <<>> =>
         /\ optimizer.target = created.target
         /\ optimizer.state.param_states = created.state.param_states

\* Two apply_gradient calls succeeded on a target without leaves.
C2_Witness ==
  /\ IsBase(created)
  /\ tree_leaves(created.target) = <<>>
  /\ Applied
  /\ ~last.raised
  /\ applied >= 2

\* The pairs of a MultiOptimizer, and the key tuples pair i selects.
Pairs(opt) == 1..Len(opt.optimizer_def.traversals)

SelectedBy(opt, i) == Selected(opt.optimizer_def.traversals[i], opt.target)

PathOnly(opt) == \A i \in Pairs(opt) : IsPathFilter(opt.optimizer_def.traversals[i])

Disjoint(opt) ==
  \A i, j \in Pairs(opt) : i # j => SelectedBy(opt, i) \cap SelectedBy(opt, j) = {}

\* The call has hyper parameters and a state for every pair.
PairsComplete(opt, hyper_params) ==
  /\ Len(hyper_params) >= Len(opt.optimizer_def.traversals)
  /\ Len(opt.state) >= Len(opt.optimizer_def.traversals)

\* What sub-optimizer i's rule computes from `value` as the parameter at key
\* tuple p, the gradient stored at p, hyper_params[i] and states[i].
PairRule(opt, hyper_params, grads, i, p, value) ==
  apply_param_gradient(
    opt.state[i].step, hyper_params[i], value,
    opt.state[i].param_states.elems[
      1 + Cardinality({q \in SelectedBy(opt, i) : TupleLess(q, p)})],
    Flat(grads)[p]).new_param

\* A MultiOptimizer with path-only filters was applied to gradients with the
\* structure of its target, with hyper parameters and a state for every pair.
MultiApplied ==
  /\ Applied
  /\ IsMulti(last.before.optimizer_def)
  /\ PathOnly(last.before)
  /\ SameStructure(last.grads, last.before.target)
  /\ PairsComplete(last.before, last.hyper_params)

\* The result of the docstring's pair on the example tree, in tenths:
\*   {a: {kernel: 0.9, bias: 1.5}, b: {kernel: 2.9, bias: 3.5}}
ExampleResult ==
  Dict(key_a :> Dict(key_kernel :> Leaf(9) @@ key_bias :> Leaf(15)) @@
       key_b :> Dict(key_kernel :> Leaf(29) @@ key_bias :> Leaf(35)))

ExampleCall ==
  /\ Applied
  /\ IsMulti(last.before.optimizer_def)
  /\ last.before.optimizer_def = KernelBiasDef
  /\ last.before.target = ExampleTarget
  /\ last.before.state = init_state(KernelBiasDef, ExampleTarget)
  /\ last.grads = UniformGrads(ExampleTarget, 1)
  /\ DOMAIN last.overrides = {}

\* C3: when the traversals of a MultiOptimizer select pairwise disjoint
\* leaves by path, apply_gradient on same-structure gradients returns a tree
\* with the structure of params in which a leaf selected by pair i is what
\* sub-optimizer i's rule computes from it, the gradient at its path,
\* hyper_params[i] and states[i], and a leaf no pair selects is unchanged;
\* the kernel/bias example gives
\* {a: {kernel: 0.9, bias: 1.5}, b: {kernel: 2.9, bias: 3.5}}.
C3_DisjointPairs ==
  /\ (MultiApplied /\ Disjoint(last.before)) =>
       /\ ~last.raised
       /\ SameStructure(optimizer.target, last.before.target)
       /\ \A p \in DOMAIN Flat(last.before.target) :
            /\ \A i \in Pairs(last.before) :
                 p \in SelectedBy(last.before, i) =>
                   Flat(optimizer.target)[p] =
                     PairRule(last.before, last.hyper_params, last.grads, i, p,
                              Flat(last.before.target)[p])
            /\ (\A i \in Pairs(last.before) : p \notin SelectedBy(last.before, i)) =>
                 Flat(optimizer.target)[p] = Flat(last.before.target)[p]
  /\ ExampleCall => optimizer.target = ExampleResult

\* The kernel/bias pair was applied to the example tree with all gradients 1.
C3_Witness ==
  /\ ExampleCall
  /\ MultiApplied
  /\ Disjoint(last.before)
  /\ ~last.raised
  /\ optimizer.target = ExampleResult

\* The value of the leaf at p after the pairs from i on, when every pair
\* reads the leaf as the pairs before it left it.
RECURSIVE Accumulated(_, _, _, _, _, _)
Accumulated(opt, hyper_params, grads, i, p, value) ==
  IF i > Len(opt.optimizer_def.traversals) THEN value
  ELSE Accumulated(opt, hyper_params, grads, i + 1, p,
         IF p \in SelectedBy(opt, i)
           THEN PairRule(opt, hyper_params, grads, i, p, Leaf(value)).val
           ELSE value)

\* The value of the leaf at p when every pair reads the leaf from the params
\* passed to apply_gradient and the last pair that selects it writes last.
OverwrittenByLast(opt, hyper_params, grads, p) ==
  LET value == Flat(opt.target)[p]
      selecting == {i \in Pairs(opt) : p \in SelectedBy(opt, i)}
  IN  IF selecting = {} THEN value
      ELSE PairRule(opt, hyper_params, grads,
                    CHOOSE i \in selecting : \A j \in selecting : j <= i, p, value)

\* C4 as stated: pair k reads its leaves from the tree as updated by pairs
\* 1..k-1, so a leaf selected by two pairs ends as the later rule applied to
\* the value the earlier rule produced.
C4_ReadsUpdatedTree ==
  MultiApplied =>
    \A p \in DOMAIN Flat(last.before.target) :
      Flat(optimizer.target)[p] =
        Leaf(Accumulated(last.before, last.hyper_params, last.grads, 1, p,
                         Flat(last.before.target)[p].val))

\* C4 amended: every pair reads its leaves from the params passed to
\* apply_gradient; only the writes accumulate, in pair order, so a leaf
\* selected by several pairs ends as the last selecting pair's rule applied
\* to the leaf's value before the call, the earlier results overwritten.
C4_ReadsOriginalParams ==
  MultiApplied =>
    /\ ~last.raised
    /\ \A p \in DOMAIN Flat(last.before.target) :
         Flat(optimizer.target)[p] =
           OverwrittenByLast(last.before, last.hyper_params, last.grads, p)

\* A leaf selected by two pairs was updated, and the two readings differ.
C4_Witness ==
  /\ MultiApplied
  /\ ~last.raised
  /\ \E p \in DOMAIN Flat(last.before.target) :
       /\ \E i, j \in Pairs(last.before) :
            i # j /\ p \in SelectedBy(last.before, i) /\ p \in SelectedBy(last.before, j)
       /\ OverwrittenByLast(last.before, last.hyper_params, last.grads, p) #
            Leaf(Accumulated(last.before, last.hyper_params, last.grads, 1, p,
                             Flat(last.before.target)[p].val))

\* C7: update_hyper_params without overrides returns the hyper parameters of
\* the definition, and apply_gradient with overrides leaves the definition,
\* its hyper_params included (the list and its entries for a MultiOptimizer),
\* as it was, so a call without overrides runs the rule with the hyper
\* parameters the definition was made with.
C7_OverridesScoped ==
  /\ optimizer.optimizer_def = created.optimizer_def
  /\ Applied =>
       /\ optimizer.optimizer_def.hyper_params = last.before.optimizer_def.hyper_params
       /\ DOMAIN last.overrides = {} =>
            /\ last.hyper_params = created.optimizer_def.hyper_params
            /\ (IsBase(created) /\ ~last.raised) =>
                 \A i \in 1..Len(tree_leaves(optimizer.target)) :
                   tree_leaves(optimizer.target)[i] =
                     apply_param_gradient(
                       last.before.state.step, created.optimizer_def.hyper_params,
                       tree_leaves(last.before.target)[i],
                       tree_leaves(last.before.state.param_states)[i],
                       tree_leaves(last.grads)[i]).new_param

\* A call without overrides succeeded on a target with leaves right after a
\* call with overrides.
C7_Witness ==
  /\ Applied
  /\ last.after_override
  /\ DOMAIN last.overrides = {}
  /\ ~last.raised
  /\ IsBase(created)
  /\ tree_leaves(optimizer.target) # <<>>
  /\ applied = 2

\* C10: apply_gradient with gradients whose structure is not that of the
\* parameters raises, and the Optimizer it was called on is as it was, also
\* for a MultiOptimizer.
C10_MismatchFails ==
  (Applied /\ ~SameStructure(last.grads, last.before.target)) =>
    /\ last.raised
    /\ optimizer = last.before

\* C11: the state of an Optimizer backed by a MultiOptimizer of N pairs is a
\* sequence of N sub-states, one per pair, after init_state and after every
\* apply_gradient, calls with a hyper_params=[...] override of any length
\* included, and a successful call advances the step of each of the N
\* sub-states.
C11_StateAligned ==
  IsMulti(optimizer.optimizer_def) =>
    /\ Len(optimizer.state) = Len(optimizer.optimizer_def.traversals)
    /\ (Applied /\ ~last.raised) =>
         \A i \in Pairs(optimizer) :
           optimizer.state[i].step = last.before.state[i].step + 1

\* The position among the leaves pair i selects from the target of opt, in
\* the order of iterate, of the leaf at key tuple p.
PositionIn(opt, i, p) ==
  1 + Cardinality({q \in SelectedBy(opt, i) : TupleLess(q, p)})

\* What sub-optimizer i's rule returns for the parameter at key tuple p of
\* the target of opt when it is handed `grad` for it.
PairOut(opt, hyper_params, i, p, grad) ==
  apply_param_gradient(
    opt.state[i].step, hyper_params[i], Flat(opt.target)[p],
    opt.state[i].param_states.elems[PositionIn(opt, i, p)], grad)

\* No pair after pair i writes the leaf at p.
NotWrittenAfter(opt, i, p) ==
  \A j \in Pairs(opt) :
    j > i => /\ IsPathFilter(opt.optimizer_def.traversals[j])
             /\ p \notin SelectedBy(opt, j)

\* A MultiOptimizer returned from apply_gradient on gradients with the
\* structure of its target.
MultiReturned ==
  /\ Applied
  /\ IsMulti(last.before.optimizer_def)
  /\ SameStructure(last.grads, last.before.target)
  /\ ~last.raised

\* C12: in MultiOptimizer.apply_gradient on gradients with the structure of
\* params, for every pair and every filter over (path, value), the k-th
\* gradient handed to the sub-optimizer is the gradient stored at the path of
\* the k-th selected parameter (seen in the new sub-state, which the rule
\* computes from the gradient it was handed), and the k-th updated value is
\* written back to that path.
C12_SamePath ==
  MultiReturned =>
    \A i \in 1..Len(optimizer.state) :
      \A p \in SelectedBy(last.before, i) :
        LET k == PositionIn(last.before, i, p)
            handed == iterate(last.before.optimizer_def.traversals[i], last.grads)[k]
        IN  /\ optimizer.state[i].param_states.elems[k] =
                 PairOut(last.before, last.hyper_params, i, p,
                         Flat(last.grads)[p]).new_state
            /\ NotWrittenAfter(last.before, i, p) =>
                 Flat(optimizer.target)[p] =
                   PairOut(last.before, last.hyper_params, i, p, handed).new_param

----------------------------------------------------------------------------
(* Properties of a replicated Optimizer. *)

Pmapped == last.op = "pmap_apply_gradient"

\* The mean over the devices of every leaf of the stacked gradients.
MeanGrads(grads) ==
  tree_map([x \in Leaves(grads) |-> Leaf(SumSeq(x.val) \div Len(x.val))], grads)

\* What device d holds of a replicated Optimizer, with the definition the
\* wrapper decorates.
Unwrapped(self, d) ==
  replace_optimizer_def(device_slice(self, d), self.optimizer_def.optimizer_def)

\* Gradients [2, 4] on 2 devices for the one parameter of {kernel: 1.0}.
ScalarCall ==
  /\ Pmapped
  /\ ~IsMulti(last.before.optimizer_def.optimizer_def)
  /\ last.before.target = replicate(create(sgd(1), ScalarTarget, None)).target
  /\ last.before.state = replicate(create(sgd(1), ScalarTarget, None)).state
  /\ last.grads = Dict(key_kernel :> Leaf(<<2, 4>>))
  /\ DOMAIN last.overrides = {}

\* C8: under pmap every device's new params and state are what the wrapped
\* definition's apply_gradient returns for that device's params and state
\* and the mean over the devices of every gradient leaf (3 for [2, 4] on 2
\* devices); devices that held the same params and state before the call
\* hold the same after it.
C8_CrossReplicaMean ==
  Pmapped =>
    /\ ~last.raised
    /\ \A d \in 1..NDev :
         /\ device_slice(optimizer, d).target =
              Optimizer_apply_gradient(Unwrapped(last.before, d), MeanGrads(last.grads),
                                       last.overrides).optimizer.target
         /\ device_slice(optimizer, d).state =
              Optimizer_apply_gradient(Unwrapped(last.before, d), MeanGrads(last.grads),
                                       last.overrides).optimizer.state
    /\ (\A d \in 1..NDev : device_slice(last.before, d) = device_slice(last.before, 1)) =>
         \A d \in 1..NDev : device_slice(optimizer, d) = device_slice(optimizer, 1)
    /\ ScalarCall =>
         /\ optimizer.state.param_states = Dict(key_kernel :> Leaf(<<3, 3>>))
         /\ optimizer.target = Dict(key_kernel :> Leaf(<<7, 7>>))

\* The gradients [2, 4] were applied on 2 devices and the rule was fed 3.
C8_Witness ==
  /\ ScalarCall
  /\ ~last.raised
  /\ optimizer.state.param_states = Dict(key_kernel :> Leaf(<<3, 3>>))

\* C9: unreplicate raises exactly when optimizer_def is not a
\* ReplicatedOptimizer, and unreplicate(replicate(opt)) returns opt: its
\* definition, its state and its target.
C9_RoundTrip ==
  /\ unreplicate(replicate(optimizer)) = [raised |-> FALSE, optimizer |-> optimizer]
  /\ last.op = "unreplicate" =>
       /\ last.raised <=> ~IsReplicated(last.before.optimizer_def)
       /\ last.raised => optimizer = last.before
       /\ last.replicated_from # None =>
            /\ ~last.raised
            /\ optimizer = last.replicated_from

\* An Optimizer with parameters was replicated and then unreplicated.
C9_Witness ==
  /\ last.op = "unreplicate"
  /\ ~last.raised
  /\ last.replicated_from # None
  /\ optimizer = last.replicated_from
  /\ tree_leaves(optimizer.target) # <<>>

====
